---- MODULE Spec2Model ----
(***************************************************************************)
(* A model of the calendar application (src/src/App.js): the event store   *)
(* kept in React state and mirrored into localStorage, the creation form,  *)
(* the filter/search projection and the view switch with its 150 ms zoom   *)
(* timer.                                                                  *)
(*                                                                         *)
(* Every browser event is one action: React flushes the state updates of a *)
(* discrete event, re-renders and runs the resulting effects before the    *)
(* next event is handled, so a handler, the render it causes and the       *)
(* persistence effect form one atomic step.                                *)
(*                                                                         *)
(* Text that the program inspects (titles, the search query) is a sequence *)
(* of one-character strings; a Date is a record holding its time value in  *)
(* milliseconds; values of different JavaScript types carry a tag.         *)
(***************************************************************************)
EXTENDS Integers, Sequences, FiniteSets, TLC

VARIABLES
    events,         \* useState "events": a JavaScript value, normally an array
    localStorage,   \* the "calendarEvents" entry of localStorage
    now,            \* the wall clock read by Date.now(), in milliseconds
    view,           \* useState "view"
    zooming,        \* useState "zooming"
    timers,         \* pending setTimeout callbacks (their newView), oldest first
    requests,       \* number of view-change requests that scheduled a timer
    lastCall,       \* argument of the latest handleViewChange call, "none" before
    lastEffective,  \* argument of the latest call that asked for another view
                    \* than the one committed at the time of the call
    searchQuery,    \* useState "searchQuery"
    filters,        \* useState "filters"
    showForm,       \* useState "showForm"
    formData,       \* useState "formData"
    selectedEvent,  \* useState "selectedEvent": <<>> for null, <<ev>> otherwise
    crashed         \* TRUE once a render has thrown (the tree is unmounted)

vars == <<events, localStorage, now, view, zooming, timers, requests,
          lastCall, lastEffective,
          searchQuery, filters, showForm, formData, selectedEvent, crashed>>

storeVars == <<events, localStorage>>
viewVars == <<view, zooming, timers, requests, lastCall, lastEffective>>
filterVars == <<searchQuery, filters>>
formVars == <<showForm, formData>>

(***************************************************************************)
(* Bounds of the model.                                                    *)
(***************************************************************************)
MaxEvents == 2      \* longest event array explored
MaxNow == 2         \* last clock value explored
MaxRequests == 3    \* view-change requests explored

(***************************************************************************)
(* JavaScript values.                                                      *)
(***************************************************************************)
EmptyString == [tag |-> "string", time |-> 0]
InvalidDate == [tag |-> "InvalidDate", time |-> 0]
DateOf(t) == [tag |-> "Date", time |-> t]
IsValidDate(d) == d.tag = "Date"

Arr(items) == [tag |-> "array", items |-> items]

eventTypes == {"reminder", "plan", "other"}
Views == {"month", "week", "day", "agenda"}

(***************************************************************************)
(* String functions used by the projection.                                *)
(***************************************************************************)
LowerChar(c) ==
    CASE c = "A" -> "a"
      [] c = "B" -> "b"
      [] OTHER -> c

toLowerCase(s) == [i \in 1..Len(s) |-> LowerChar(s[i])]

RECURSIVE trimStart(_)
trimStart(s) ==
    IF s # <<>> /\ Head(s) = " " THEN trimStart(Tail(s)) ELSE s

RECURSIVE trimEnd(_)
trimEnd(s) ==
    IF s # <<>> /\ s[Len(s)] = " " THEN trimEnd(SubSeq(s, 1, Len(s) - 1)) ELSE s

trim(s) == trimEnd(trimStart(s))

includes(s, q) ==
    \E i \in 0..(Len(s) - Len(q)) : SubSeq(s, i + 1, i + Len(q)) = q

(***************************************************************************)
(* Dates: construction, serialisation and revival.                         *)
(***************************************************************************)
\* new Date(x) for x a Date (copies the time value) or the string ""
NewDate(x) == IF x.tag = "Date" THEN DateOf(x.time) ELSE InvalidDate

\* new Date(e.target.value) for a datetime-local input: "" when the field is
\* cleared, otherwise a wall-clock minute
NewDateFromInput(v) ==
    IF v.text = "" THEN InvalidDate ELSE DateOf(v.minutes * 60000)

\* Date.prototype.toISOString, seen as seconds plus a three-digit fraction
toISOStringNoMillis(d) == [tag |-> "string", secs |-> d.time \div 1000, millis |-> 0]
toISOString(d) ==
    [tag |-> "string", secs |-> d.time \div 1000, millis |-> d.time % 1000]

\* Date.prototype.toJSON: null for an invalid date
JSONNull == [tag |-> "null", secs |-> 0, millis |-> 0]
DateToJSON(d) == IF IsValidDate(d) THEN toISOString(d) ELSE JSONNull

\* new Date(value) in the reviver: a string is parsed, null is time value 0
ReviveDate(j) ==
    IF j.tag = "string" THEN DateOf(j.secs * 1000 + j.millis) ELSE DateOf(0)

SerializeEvent(ev) ==
    [id |-> ev.id, title |-> ev.title, description |-> ev.description,
     type |-> ev.type, start |-> DateToJSON(ev.start), end |-> DateToJSON(ev.end)]

ReviveEvent(j) ==
    [id |-> j.id, title |-> j.title, description |-> j.description,
     type |-> j.type, start |-> ReviveDate(j.start), end |-> ReviveDate(j.end)]

(***************************************************************************)
(* The localStorage entry: absent (getItem gives null), or a text, which   *)
(* either is JSON for some value or does not parse.                        *)
(***************************************************************************)
Absent == [tag |-> "absent", value |-> Arr(<<>>)]
EmptyText == [tag |-> "empty", value |-> Arr(<<>>)]
NotJson == [tag |-> "unparsable", value |-> Arr(<<>>)]
JsonText(v) == [tag |-> "json", value |-> v]

\* JSON.stringify(events)
JSONstringify(v) ==
    JsonText([tag |-> v.tag,
              items |-> [i \in 1..Len(v.items) |-> SerializeEvent(v.items[i])]])

\* JSON.parse(saved, reviver) on a text that parses
JSONparse(text) ==
    [tag |-> text.value.tag,
     items |-> [i \in 1..Len(text.value.items) |-> ReviveEvent(text.value.items[i])]]

\* the initialiser of useState "events"
LoadEvents(saved) ==
    IF saved.tag = "json" THEN JSONparse(saved) ELSE Arr(<<>>)

(***************************************************************************)
(* The filter/search projection, computed at every render.                 *)
(***************************************************************************)
KeepsEventNoFilter(ev, flt, query) ==
    ~(trim(query) # <<>> /\ ~includes(toLowerCase(ev.title), toLowerCase(query)))

KeepsEvent(ev, flt, query) ==
    /\ flt[ev.type]
    /\ ~(trim(query) # <<>> /\ ~includes(toLowerCase(ev.title), toLowerCase(query)))

filteredEvents == SelectSeq(events.items, LAMBDA ev : KeepsEvent(ev, filters, searchQuery))

\* events.filter(...) throws a TypeError unless events is an array
RenderThrows(v) == v.tag # "array"

(***************************************************************************)
(* Initial state: the page is loaded with some content of the entry.       *)
(***************************************************************************)
DefaultForm ==
    [title |-> <<>>, description |-> "", type |-> "reminder",
     start |-> EmptyString, end |-> EmptyString]

AllFilters == [t \in eventTypes |-> TRUE]

SavedEvent ==
    [id |-> 0, title |-> <<"b">>, description |-> "", type |-> "plan",
     start |-> DateOf(1500), end |-> DateOf(60000)]

SavedEntries ==
    { Absent, EmptyText, NotJson,
      JsonText([tag |-> "null", items |-> <<>>]),
      JsonText([tag |-> "object", items |-> <<>>]),
      JSONstringify(Arr(<<>>)),
      JSONstringify(Arr(<<SavedEvent>>)) }

\* the effect that persists events; it does not run when the render threw
PersistOnlyWhenMissing(v, entry) ==
    IF RenderThrows(v) \/ entry.tag = "json" THEN entry ELSE JSONstringify(v)
Persist(v, entry) == IF RenderThrows(v) THEN entry ELSE JSONstringify(v)

Init ==
    /\ \E saved \in SavedEntries :
          /\ events = LoadEvents(saved)
          /\ crashed = RenderThrows(LoadEvents(saved))
          /\ localStorage = Persist(LoadEvents(saved), saved)
    /\ view = "month"
    /\ zooming = FALSE
    /\ timers = <<>>
    /\ searchQuery = <<>>
    /\ filters = AllFilters
    /\ showForm = FALSE
    /\ formData = DefaultForm
    /\ selectedEvent = <<>>
    /\ now = 1
    /\ requests = 0
    /\ lastCall = "none"
    /\ lastEffective = "none"

(***************************************************************************)
(* Page reload: every piece of React state is rebuilt, pending timers are  *)
(* discarded, events are read back from localStorage.                      *)
(***************************************************************************)
Reload ==
    /\ events' = LoadEvents(localStorage)
    /\ crashed' = RenderThrows(LoadEvents(localStorage))
    /\ localStorage' = Persist(LoadEvents(localStorage), localStorage)
    /\ view' = "month"
    /\ zooming' = FALSE
    /\ timers' = <<>>
    /\ searchQuery' = <<>>
    /\ filters' = AllFilters
    /\ showForm' = FALSE
    /\ formData' = DefaultForm
    /\ selectedEvent' = <<>>
    /\ lastCall' = "none"
    /\ lastEffective' = "none"
    /\ UNCHANGED <<now, requests>>

\* time passes
Tick ==
    /\ now < MaxNow
    /\ now' = now + 1
    /\ UNCHANGED <<storeVars, viewVars, filterVars, formVars, selectedEvent,
                   crashed>>

(***************************************************************************)
(* The creation form.                                                      *)
(***************************************************************************)
\* formatForInput(date), the value attribute given to a datetime-local input
formatForInput(date) ==
    IF date.tag = "string" THEN [text |-> "", minutes |-> 0]
    ELSE IF date.tag = "InvalidDate"
         THEN [text |-> "NaN-NaN-NaNTNaN:NaN", minutes |-> 0]
         ELSE [text |-> "datetime", minutes |-> date.time \div 60000]

\* a datetime-local input shows nothing for a value that is no date and time;
\* a required input with nothing in it blocks the submission
RequiredFilled(date) == formatForInput(date).text = "datetime"

CanSubmit ==
    /\ formData.title # <<>>
    /\ RequiredFilled(formData.start)
    /\ RequiredFilled(formData.end)

\* "Add Event" button: setShowForm(true)
openForCreate ==
    /\ ~crashed
    /\ showForm' = TRUE
    /\ UNCHANGED <<storeVars, now, viewVars, filterVars, formData,
                   selectedEvent, crashed>>

\* Cancel button or a click on the backdrop: setShowForm(false)
cancel ==
    /\ ~crashed
    /\ showForm
    /\ showForm' = FALSE
    /\ UNCHANGED <<storeVars, now, viewVars, filterVars, formData,
                   selectedEvent, crashed>>

handleSelectSlot(slot) ==
    /\ ~crashed
    /\ formData' = [title |-> <<>>, description |-> "", type |-> "reminder",
                    start |-> slot.start, end |-> slot.end]
    /\ showForm' = TRUE
    /\ UNCHANGED <<storeVars, now, viewVars, filterVars, selectedEvent, crashed>>

\* onChange of a form field: setFormData({...formData, field: value})
SetField(field, value) ==
    /\ ~crashed
    /\ showForm
    /\ formData' = [formData EXCEPT ![field] = value]
    /\ UNCHANGED <<storeVars, now, viewVars, filterVars, showForm,
                   selectedEvent, crashed>>

onTitleChange(text) == SetField("title", text)
onDescriptionChange(text) == SetField("description", text)
onTypeChange(type) == SetField("type", type)
onStartChange(v) == SetField("start", NewDateFromInput(v))
onEndChange(v) == SetField("end", NewDateFromInput(v))

\* the record handleSubmit builds
NewEventSwapped(draft, id) ==
    [id |-> id, title |-> draft.title, description |-> draft.description,
     type |-> draft.type, start |-> NewDate(draft.end), end |-> NewDate(draft.start)]
NewEvent(draft, id) ==
    [id |-> id, title |-> draft.title, description |-> draft.description,
     type |-> draft.type, start |-> NewDate(draft.start), end |-> NewDate(draft.end)]

handleSubmit ==
    /\ ~crashed
    /\ showForm
    /\ CanSubmit
    /\ Len(events.items) < MaxEvents
    /\ events' = Arr(Append(events.items, NewEvent(formData, now)))
    /\ localStorage' = Persist(events', localStorage)
    /\ showForm' = FALSE
    /\ UNCHANGED <<now, viewVars, filterVars, formData, selectedEvent, crashed>>

(***************************************************************************)
(* Event details and deletion.                                             *)
(***************************************************************************)
handleSelectEvent(ev) ==
    /\ ~crashed
    /\ selectedEvent' = <<ev>>
    /\ UNCHANGED <<storeVars, now, viewVars, filterVars, formVars, crashed>>

\* Close button or a click on the backdrop: setSelectedEvent(null)
closeDetails ==
    /\ ~crashed
    /\ selectedEvent # <<>>
    /\ selectedEvent' = <<>>
    /\ UNCHANGED <<storeVars, now, viewVars, filterVars, formVars, crashed>>

\* prev.filter((ev) => ev.id !== id)
WithoutId(items, id) == SelectSeq(items, LAMBDA ev : ev.id # id)

removeEvent(id) ==
    /\ ~crashed
    /\ events' = Arr(WithoutId(events.items, id))
    /\ localStorage' = Persist(events', localStorage)
    /\ selectedEvent' = <<>>
    /\ UNCHANGED <<now, viewVars, filterVars, formVars, crashed>>

\* Delete button of the details dialog
deleteSelected ==
    /\ selectedEvent # <<>>
    /\ removeEvent(selectedEvent[1].id)

(***************************************************************************)
(* Search box and type filters.                                            *)
(***************************************************************************)
onSearchChange(text) ==
    /\ ~crashed
    /\ searchQuery' = text
    /\ UNCHANGED <<storeVars, now, viewVars, filters, formVars, selectedEvent,
                   crashed>>

toggleFilter(type) ==
    /\ ~crashed
    /\ filters' = [filters EXCEPT ![type] = ~filters[type]]
    /\ UNCHANGED <<storeVars, now, viewVars, searchQuery, formVars,
                   selectedEvent, crashed>>

(***************************************************************************)
(* The view switch.                                                        *)
(***************************************************************************)
\* what the history variables record of a call
RecordCall(newView) ==
    /\ lastCall' = newView
    /\ lastEffective' = IF newView # view THEN newView ELSE lastEffective

handleViewChangeNoGuard(newView) ==
    /\ ~crashed
    /\ RecordCall(newView)
    /\ requests < MaxRequests
    /\ zooming' = TRUE
    /\ timers' = Append(timers, newView)
    /\ requests' = requests + 1
    /\ UNCHANGED <<storeVars, now, view, filterVars, formVars,
                   selectedEvent, crashed>>
handleViewChange(newView) ==
    /\ ~crashed
    /\ RecordCall(newView)
    /\ IF view = newView
       THEN UNCHANGED <<storeVars, now, view, zooming, timers, requests,
                        filterVars, formVars, selectedEvent, crashed>>
       ELSE /\ requests < MaxRequests
            /\ zooming' = TRUE
            /\ timers' = Append(timers, newView)
            /\ requests' = requests + 1
            /\ UNCHANGED <<storeVars, now, view, filterVars, formVars,
                           selectedEvent, crashed>>

\* the callback given to setTimeout; equal delays fire in scheduling order
timerCallbackKeepsFlag ==
    /\ timers # <<>>
    /\ view' = Head(timers)
    /\ timers' = Tail(timers)
    /\ UNCHANGED <<storeVars, now, zooming, requests, lastCall, lastEffective,
                   filterVars, formVars, selectedEvent, crashed>>
timerCallback ==
    /\ timers # <<>>
    /\ view' = Head(timers)
    /\ zooming' = FALSE
    /\ timers' = Tail(timers)
    /\ UNCHANGED <<storeVars, now, requests, lastCall, lastEffective,
                   filterVars, formVars, selectedEvent, crashed>>

(***************************************************************************)
(* Inputs.                                                                 *)
(***************************************************************************)
Titles == {<<"A", "b">>, <<"b">>}
FormTitles == {<<"A", "b">>}
FormTypes == {"plan"}
Descriptions == {"d"}
FieldTexts ==
    {[text |-> "", minutes |-> 0], [text |-> "datetime", minutes |-> 1]}
Slots == {[start |-> DateOf(61001), end |-> DateOf(122002)]}
Queries == {<<>>, <<" ">>, <<"a">>, <<"B">>, <<" ", "b">>}

(***************************************************************************)
(* Specifications.  The store, the form, the projection and the view       *)
(* switch are explored together in Spec, and each on its own, with the     *)
(* state of the others at rest, in the specifications after it.            *)
(***************************************************************************)
Next ==
    \/ openForCreate
    \/ cancel
    \/ \E slot \in Slots : handleSelectSlot(slot)
    \/ \E text \in Titles : onTitleChange(text)
    \/ \E text \in Descriptions : onDescriptionChange(text)
    \/ \E type \in eventTypes : onTypeChange(type)
    \/ \E v \in FieldTexts : onStartChange(v)
    \/ \E v \in FieldTexts : onEndChange(v)
    \/ handleSubmit
    \/ \E i \in 1..Len(filteredEvents) : handleSelectEvent(filteredEvents[i])
    \/ closeDetails
    \/ deleteSelected
    \/ Tick
    \/ Reload
    \/ \E text \in Queries : onSearchChange(text)
    \/ \E type \in eventTypes : toggleFilter(type)
    \/ \E newView \in Views : handleViewChange(newView)
    \/ timerCallback

Spec == Init /\ [][Next]_vars

\* the event store: creation, deletion, reload, the clock
StoreNext ==
    \/ openForCreate
    \/ cancel
    \/ \E slot \in Slots : handleSelectSlot(slot)
    \/ \E text \in FormTitles : onTitleChange(text)
    \/ \E text \in Descriptions : onDescriptionChange(text)
    \/ \E v \in FieldTexts : onStartChange(v)
    \/ handleSubmit
    \/ \E i \in 1..Len(filteredEvents) : handleSelectEvent(filteredEvents[i])
    \/ closeDetails
    \/ deleteSelected
    \/ Tick
    \/ Reload

StoreSpec == Init /\ [][StoreNext]_vars

\* the creation form: every field edited
FormNext ==
    \/ openForCreate
    \/ cancel
    \/ \E slot \in Slots : handleSelectSlot(slot)
    \/ \E text \in FormTitles : onTitleChange(text)
    \/ \E text \in Descriptions : onDescriptionChange(text)
    \/ \E type \in FormTypes : onTypeChange(type)
    \/ \E v \in FieldTexts : onStartChange(v)
    \/ \E v \in FieldTexts : onEndChange(v)
    \/ handleSubmit

FormSpec == Init /\ [][FormNext]_vars

\* the projection: events of several titles and types, searched and filtered
FilterNext ==
    \/ \E slot \in Slots : handleSelectSlot(slot)
    \/ \E text \in Titles : onTitleChange(text)
    \/ \E type \in eventTypes : onTypeChange(type)
    \/ handleSubmit
    \/ \E text \in Queries : onSearchChange(text)
    \/ \E type \in eventTypes : toggleFilter(type)

FilterSpec == Init /\ [][FilterNext]_vars

\* the view switch; a scheduled timer callback eventually runs
ViewNext ==
    \/ \E newView \in Views : handleViewChange(newView)
    \/ timerCallback

ViewSpec == Init /\ [][ViewNext]_vars

ViewFairSpec == ViewSpec /\ WF_vars(timerCallback)

(***************************************************************************)
(* Properties.                                                             *)
(***************************************************************************)
Items == events.items

\* text contains q when letter case is ignored
ContainsIgnoringCase(text, q) ==
    \E i \in 0..(Len(text) - Len(q)) :
        \A k \in 1..Len(q) : LowerChar(text[i + k]) = LowerChar(q[k])

\* C1: no two records of the store have the same id
C1_UniqueIds ==
    \A i, j \in 1..Len(Items) : i # j => Items[i].id # Items[j].id

\* C2: deleting the record with a given id takes exactly one record out of a
\* store that holds the id, leaving no record with that id and the others in
\* their order, and leaves a store without the id as it is
C2_RemoveTakesOne ==
    [][deleteSelected =>
        LET id == selectedEvent[1].id
            hits == {i \in 1..Len(Items) : Items[i].id = id}
        IN IF hits = {}
           THEN events'.items = Items
           ELSE /\ Len(events'.items) = Len(Items) - 1
                /\ \A k \in 1..Len(events'.items) : events'.items[k].id # id
                /\ \E i \in hits :
                      events'.items = SubSeq(Items, 1, i - 1)
                                        \o SubSeq(Items, i + 1, Len(Items))]_vars

\* C3: a reload of the running application gives back the same records, the
\* start and end of each equal to the millisecond and every other field equal
C3_ReloadKeepsRecords ==
    [][(Reload /\ ~crashed) =>
        /\ ~crashed'
        /\ events'.tag = "array"
        /\ Len(events'.items) = Len(Items)
        /\ \A i \in 1..Len(Items) :
              /\ events'.items[i].start.time = Items[i].start.time
              /\ events'.items[i].end.time = Items[i].end.time
              /\ events'.items[i] = Items[i]]_vars

\* a record submitted in an earlier page load, with a start off the full
\* second, is in the store after a reload (only a reload empties the start
\* field of the draft again)
C3_Witness ==
    /\ ~crashed
    /\ formData = DefaultForm
    /\ \E i \in 1..Len(Items) :
          Items[i].id >= 1 /\ Items[i].start.time % 1000 # 0

\* the entry holds the serialisation of an array
WellFormedEntry(entry) == entry.tag = "json" /\ entry.value.tag = "array"

\* C4: a page load that finds an entry which is not a serialised sequence of
\* records starts with the empty store and its first render does not throw.
\* (A running application overwrites the entry with a serialised array, so
\* an entry of another form is one that the last page load found.)
C4_StartupNeverFails ==
    ~WellFormedEntry(localStorage) => (events = Arr(<<>>) /\ ~crashed)

\* C5 as stated: the projection holds no record of a type whose flag is
\* false and, when the query is not empty, no record whose title does not
\* contain the query, letter case ignored
C5_QueryNotEmpty ==
    \A i \in 1..Len(filteredEvents) :
        /\ filters[filteredEvents[i].type]
        /\ searchQuery # <<>> =>
              ContainsIgnoringCase(filteredEvents[i].title, searchQuery)

\* C5 amended: the same, for a query that is not empty after trimming
C5_QueryNotBlank ==
    \A i \in 1..Len(filteredEvents) :
        /\ filters[filteredEvents[i].type]
        /\ trim(searchQuery) # <<>> =>
              ContainsIgnoringCase(filteredEvents[i].title, searchQuery)

\* one of two records is shown under a query with text in it and a type
\* switched off
C5_Witness ==
    /\ ~crashed
    /\ trim(searchQuery) # <<>>
    /\ \E type \in eventTypes : ~filters[type]
    /\ Len(Items) = 2
    /\ Len(filteredEvents) = 1

\* C6: after every handler the entry is the serialisation of the whole
\* array: as many records, the same ids, the same order
C6_EntryMirrorsStore ==
    ~crashed =>
        /\ WellFormedEntry(localStorage)
        /\ Len(localStorage.value.items) = Len(Items)
        /\ \A i \in 1..Len(Items) : localStorage.value.items[i].id = Items[i].id
        /\ localStorage = JSONstringify(events)

\* two records were added and the entry holds both
C6_Witness ==
    /\ ~crashed
    /\ Len(Items) = 2
    /\ Items[2].id >= 1
    /\ Len(localStorage.value.items) = 2

\* C7: a submit appends one record carrying the fields of the draft, keeps
\* the records before it and closes the form
C7_SubmitAppends ==
    [][handleSubmit =>
        LET n == Len(Items)
            new == events'.items[n + 1]
        IN /\ Len(events'.items) = n + 1
           /\ SubSeq(events'.items, 1, n) = Items
           /\ new.title = formData.title
           /\ new.description = formData.description
           /\ new.type = formData.type
           /\ new.start = formData.start
           /\ new.end = formData.end
           /\ ~showForm']_vars

\* a second record was submitted from a draft with every field filled in,
\* start and end different, and the form is closed
C7_Witness ==
    /\ ~crashed
    /\ ~showForm
    /\ Len(Items) = 2
    /\ Items[2].id >= 1
    /\ Items[2].title = formData.title
    /\ Items[2].description = "d"
    /\ Items[2].type = "plan"
    /\ Items[2].start = formData.start
    /\ Items[2].end = formData.end
    /\ Items[2].start # Items[2].end

\* C8: the view changes only in a step that takes zooming from true to false
C8_ViewChangesOnlyWhenZooming ==
    [][view' # view => (zooming /\ ~zooming')]_vars

\* C9: opening the form with "Add Event" leaves the draft at its defaults
C9_OpenResetsDraft ==
    [][openForCreate => formData' = DefaultForm]_vars

\* C10: with no callback pending zooming is false, it becomes true only by a
\* request for another view, and every transition comes to an end
C10_ReturnsToStable ==
    /\ [](timers = <<>> => ~zooming)
    /\ [][(~zooming /\ zooming') =>
            \E newView \in Views :
                newView # view /\ timers' = Append(timers, newView)]_vars
    /\ zooming ~> (timers = <<>> /\ ~zooming)

\* every callback of several requests has run and the view is stable
C10_Witness ==
    /\ requests >= 2
    /\ timers = <<>>
    /\ ~zooming
    /\ view # "month"

\* C11: once every pending callback has fired the view is the one asked for
\* by the latest call that was not a no-op, and a call asking for the
\* committed view changes neither the view nor the flag nor the pending
\* callbacks
C11_LastEffectiveRequestWins ==
    /\ []((timers = <<>> /\ lastEffective # "none") => view = lastEffective)
    /\ [][\A newView \in Views :
            (handleViewChange(newView) /\ newView = view) =>
                UNCHANGED <<view, zooming, timers, lastEffective>>]_vars

\* "week" was asked for, then "month" while "week" was pending and "month"
\* still committed (a no-op), and the callback has fired
C11_Witness ==
    /\ timers = <<>>
    /\ requests = 1
    /\ lastEffective = "week"
    /\ lastCall = "month"
    /\ view = "week"

====
